---------------------------- MODULE Spec2Model ----------------------------
(***************************************************************************)
(* Model of winver-rs: src/src/lib.rs (the winver library) and             *)
(* src/src/main.rs (the command-line driver).                              *)
(***************************************************************************)
EXTENDS Integers, Sequences, FiniteSets, TLC

(***************************************************************************)
(* Bounds of the model.                                                    *)
(***************************************************************************)
MaxArgs == 2        \* at most this many command-line path arguments
NumPaths == 4       \* how many entries of PathTable the arguments are drawn from
MaxSize == 1        \* sizes GetFileVersionInfoSizeW may report: 0..MaxSize
NumLens == 3        \* how many entries of LenTable VerQueryValueW may report
NumSigs == 2        \* how many entries of SigTable a sub-block may start with
NumFills == 2       \* how many fillings of the fields after the signature
NumLimbs == 6       \* how many entries of LimbTable a 16-bit quarter is drawn from

(***************************************************************************)
(* Machine integers.  A u16 is a number in 0..65535; a u32 is the pair of  *)
(* its 16-bit halves and a u64 the tuple of its four 16-bit quarters, most *)
(* significant first.  The operations of the source work on the bits: bit  *)
(* i of a value has weight 2^i.                                            *)
(***************************************************************************)
Pow2(k) == 2 ^ k

\* Bit i of the number n.
BitOf(n, i) == (n \div Pow2(i)) % 2

\* Bit i of a u32 and of a u64.
bit32(x, i) == BitOf(x[2 - (i \div 16)], i % 16)

bit64(x, i) == BitOf(x[4 - (i \div 16)], i % 16)

RECURSIVE NumFrom(_, _, _)
NumFrom(b, k, n) == IF n = 0 THEN 0 ELSE b[k] + 2 * NumFrom(b, k + 1, n - 1)

\* The number that bits k .. k+15 of the bit vector b stand for.
num16(b, k) == NumFrom(b, k, 16)

\* The u64 with the 64 bits b.
u64_of(b) == << num16(b, 48), num16(b, 32), num16(b, 16), num16(b, 0) >>

\* `x as u64` for a u16 and for a u32: zero extension.
u16_as_u64(n) == u64_of([i \in 0 .. 63 |-> IF i < 16 THEN BitOf(n, i) ELSE 0])

u32_as_u64(x) == u64_of([i \in 0 .. 63 |-> IF i < 32 THEN bit32(x, i) ELSE 0])

\* `x as u16` for a u64: truncation to the low 16 bits.
u64_as_u16(x) == num16([i \in 0 .. 15 |-> bit64(x, i)], 0)

\* `x << k` on u64: the bits shifted out at the top are lost.
shl64(x, k) == u64_of([i \in 0 .. 63 |-> IF i >= k THEN bit64(x, i - k) ELSE 0])

\* `x >> k` on u64 (logical: u64 is unsigned).
shr64(x, k) == u64_of([i \in 0 .. 63 |-> IF i + k <= 63 THEN bit64(x, i + k) ELSE 0])

\* `x | y` on u64.
or64(x, y) == u64_of([i \in 0 .. 63 |-> IF bit64(x, i) = 1 \/ bit64(y, i) = 1 THEN 1 ELSE 0])

\* `x & y` on u64.
and64(x, y) == u64_of([i \in 0 .. 63 |-> IF bit64(x, i) = 1 /\ bit64(y, i) = 1 THEN 1 ELSE 0])

\* The u64 literal 0xffff of Version::from.
Mask16 == << 0, 0, 0, 65535 >>

(***************************************************************************)
(* Formatting: `{}` of an unsigned integer (decimal, no leading zeros, no  *)
(* padding) and `{:x}` (lower-case hexadecimal, no leading zeros).         *)
(***************************************************************************)
DigitChars == <<"0", "1", "2", "3", "4", "5", "6", "7", "8", "9",
                "a", "b", "c", "d", "e", "f">>

RECURSIVE fmt_dec(_)
fmt_dec(n) == IF n < 10 THEN DigitChars[n + 1]
              ELSE fmt_dec(n \div 10) \o DigitChars[(n % 10) + 1]

\* The hexadecimal digit number k (0 the least significant) of a u32.
Nibble(x, k) == NumFrom([i \in 0 .. 31 |-> bit32(x, i)], 4 * k, 4)

RECURSIVE HexFrom(_, _)
HexFrom(x, k) == IF k < 0 THEN "" ELSE DigitChars[Nibble(x, k) + 1] \o HexFrom(x, k - 1)

RECURSIVE TopNibble(_, _)
TopNibble(x, k) == IF k = 0 \/ Nibble(x, k) # 0 THEN k ELSE TopNibble(x, k - 1)

fmt_hex(x) == HexFrom(x, TopNibble(x, 7))

(***************************************************************************)
(* lib.rs: Version and its conversions.                                    *)
(***************************************************************************)
\* Version::from with the first shift short by a byte.
Version_from_misshift(n) ==
    << u64_as_u16(and64(shr64(n, 40), Mask16)),
       u64_as_u16(and64(shr64(n, 32), Mask16)),
       u64_as_u16(and64(shr64(n, 16), Mask16)),
       u64_as_u16(and64(n, Mask16)) >>

\* impl From<u64> for Version
Version_from(n) ==
    << u64_as_u16(and64(shr64(n, 48), Mask16)),
       u64_as_u16(and64(shr64(n, 32), Mask16)),
       u64_as_u16(and64(shr64(n, 16), Mask16)),
       u64_as_u16(and64(n, Mask16)) >>

\* u64::from with the third component not shifted.
u64_from_misshift(v) ==
    or64(or64(or64(shl64(u16_as_u64(v[1]), 48), shl64(u16_as_u64(v[2]), 32)),
              u16_as_u64(v[3])),
         u16_as_u64(v[4]))

\* impl From<Version> for u64
u64_from(v) ==
    or64(or64(or64(shl64(u16_as_u64(v[1]), 48), shl64(u16_as_u64(v[2]), 32)),
              shl64(u16_as_u64(v[3]), 16)),
         u16_as_u64(v[4]))

\* impl fmt::Display for Version
Version_fmt(v) ==
    fmt_dec(v[1]) \o "." \o fmt_dec(v[2]) \o "." \o fmt_dec(v[3]) \o "." \o fmt_dec(v[4])

\* combine_dwords with the halves exchanged.
combine_dwords_swapped(high, low) == or64(shl64(u32_as_u64(low), 32), u32_as_u64(high))

\* fn combine_dwords(high: u32, low: u32) -> u64
combine_dwords(high, low) == or64(shl64(u32_as_u64(high), 32), u32_as_u64(low))

\* impl From<RawFixedFileInfo> for FixedFileInfo
FixedFileInfo_from(r) ==
    [ struc_version   |-> r.dwSignature,
      file_version    |-> combine_dwords(r.dwFileVersionMS, r.dwFileVersionLS),
      product_version |-> combine_dwords(r.dwProductVersionMS, r.dwProductVersionLS),
      file_flags_mask |-> r.dwFileFlagsMask,
      file_flags      |-> r.dwFileFlags,
      file_os         |-> r.dwFileOS,
      file_type       |-> r.dwFileType,
      file_subtype    |-> r.dwFileSubtype,
      file_date       |-> combine_dwords(r.dwFileDateMS, r.dwFileDateLS) ]


(***************************************************************************)
(* lib.rs: to_wide_string.  A path is a sequence of Unicode scalar values  *)
(* (the characters of a Rust str); encode_wide gives its UTF-16 code       *)
(* units: one unit for a character of the Basic Multilingual Plane, a      *)
(* surrogate pair for any other.                                           *)
(***************************************************************************)
encode_wide_char(c) ==
    IF c < 65536 THEN << c >>
    ELSE << 55296 + ((c - 65536) \div 1024), 56320 + ((c - 65536) % 1024) >>

RECURSIVE encode_wide(_)
encode_wide(s) == IF s = << >> THEN << >>
                  ELSE encode_wide_char(Head(s)) \o encode_wide(Tail(s))

\* The 0-based index of the first 0 in v at or after 0-based index i; Len(v) if none.
RECURSIVE first_zero_from(_, _)
first_zero_from(v, i) == IF i >= Len(v) THEN Len(v)
                         ELSE IF v[i + 1] = 0 THEN i
                         ELSE first_zero_from(v, i + 1)

Ok(x) == [tag |-> "Ok", val |-> x]
Err(msg) == [tag |-> "Err", val |-> msg]
NoResult == [tag |-> "none", val |-> ""]

\* to_wide_string reporting the position counted from 1.
to_wide_string_onebased(s) ==
    LET v == encode_wide(s)
        i == first_zero_from(v, 0)
    IN  IF i < Len(v) THEN Err("inner nullbyte at position " \o fmt_dec(i + 1))
        ELSE Ok(Append(v, 0))

\* fn to_wide_string(s) -> Result<Vec<u16>>
to_wide_string(s) ==
    LET v == encode_wide(s)
        i == first_zero_from(v, 0)
    IN  IF i < Len(v) THEN Err("inner nullbyte at position " \o fmt_dec(i))
        ELSE Ok(Append(v, 0))

(***************************************************************************)
(* Inputs: the paths, and what the operating system may answer.            *)
(***************************************************************************)
\* "a", U+1F600 U+00E9, U+1F600 "\0", "a\0b\0", "\0\0", U+00E9 U+1F600 "\0a"
PathTable == << << 97 >>, << 128512, 233 >>, << 128512, 0 >>, << 97, 0, 98, 0 >>,
                << 0, 0 >>, << 233, 128512, 0, 97 >> >>

Paths == { PathTable[k] : k \in 1 .. NumPaths }

\* const DEFAULT_PATH: &str = r"C:\Program Files\Vim\vim82\gvim.exe"
DEFAULT_PATH == << 67, 58, 92, 80, 114, 111, 103, 114, 97, 109, 32, 70, 105, 108,
                   101, 115, 92, 86, 105, 109, 92, 118, 105, 109, 56, 50, 92, 103,
                   118, 105, 109, 46, 101, 120, 101 >>

\* The sub-block name "\\" of get_fixed_info.
RootBlock == << 92 >>

\* The u32 whose high and low 16-bit halves are the numbers hi and lo.
Dword(hi, lo) == << hi, lo >>

\* 0xfeef04bd: 0xfeef = 65263, 0x04bd = 1213.
Magic == Dword(65263, 1213)

SigTable == << Magic, Dword(65263, 1212), Dword(0, 0), Dword(1213, 65263) >>

\* Product versions, as their four 16-bit quarters.
VerTable == << << 8, 82, 0, 1410 >>, << 65535, 65535, 65535, 65535 >>,
               << 1, 2, 3, 4 >>, << 0, 0, 0, 0 >> >>

LenTable == << 52, 51, 53, 0, 4 >>

\* The value of field number j of a sub-block in filling number s.
FieldSample(s, j) ==
    Dword((32768 + s * 21845 + j * 4369) % 65536, (s * 255 + j * 257) % 65536)

\* struct RawFixedFileInfo: the 13 DWORDs at the sub-block's location.
RawFields == { "dwSignature", "dwStrucVersion", "dwFileVersionMS", "dwFileVersionLS",
               "dwProductVersionMS", "dwProductVersionLS", "dwFileFlagsMask",
               "dwFileFlags", "dwFileOS", "dwFileType", "dwFileSubtype",
               "dwFileDateMS", "dwFileDateLS" }

RawSample(sig, s) ==
    [ dwSignature        |-> sig,
      dwStrucVersion     |-> IF s = 1 THEN Dword(1, 0) ELSE FieldSample(s, 1),
      dwFileVersionMS    |-> FieldSample(s, 2),
      dwFileVersionLS    |-> FieldSample(s, 3),
      dwProductVersionMS |-> Dword(VerTable[s][1], VerTable[s][2]),
      dwProductVersionLS |-> Dword(VerTable[s][3], VerTable[s][4]),
      dwFileFlagsMask    |-> FieldSample(s, 4),
      dwFileFlags        |-> FieldSample(s, 5),
      dwFileOS           |-> FieldSample(s, 6),
      dwFileType         |-> FieldSample(s, 7),
      dwFileSubtype      |-> FieldSample(s, 8),
      dwFileDateMS       |-> FieldSample(s, 9),
      dwFileDateLS       |-> FieldSample(s, 10) ]

RawSamples == { RawSample(SigTable[g], s) : g \in 1 .. NumSigs, s \in 1 .. NumFills }

\* size_of::<RawFixedFileInfo>(): 13 DWORDs of 4 bytes, repr(C), no padding.
size_of_RawFixedFileInfo == Cardinality(RawFields) * 4

\* The 13 DWORDs where there is no location to read from.
NoMem == [ f \in RawFields |-> Dword(0, 0) ]

\* What VerQueryValueW may answer: its return value, the pointer and the length it
\* stores, and the DWORDs in memory at that pointer (whatever it returns).
QueryAnswers ==
    [ ret : {0, 1}, pinfo : {"ptr"},
      pinfo_size : { LenTable[k] : k \in 1 .. NumLens }, mem : RawSamples ]
    \cup
    [ ret : {0, 1}, pinfo : {"null"},
      pinfo_size : { LenTable[k] : k \in 1 .. NumLens }, mem : {NoMem} ]

\* get_fixed_info without the test of the signature.
get_fixed_info_nosig(ans) ==
    IF ans.ret = 0 THEN
        [ queried |-> TRUE, read |-> FALSE, result |-> Err("VerQueryValueW failed") ]
    ELSE IF ans.pinfo = "null" THEN
        [ queried |-> TRUE, read |-> FALSE,
          result |-> Err("Got null result from VerQueryValueA") ]
    ELSE IF ans.pinfo_size < Cardinality(RawFields) * 4 THEN
        [ queried |-> TRUE, read |-> FALSE,
          result |-> Err("Not enough RawFixedFileInfo data. Expected "
                         \o fmt_dec(Cardinality(RawFields) * 4) \o " got "
                         \o fmt_dec(ans.pinfo_size)) ]
    ELSE
        [ queried |-> TRUE, read |-> TRUE, result |-> Ok(FixedFileInfo_from(ans.mem)) ]

\* get_fixed_info reading the structure and testing its signature before the length.
get_fixed_info_readfirst(ans) ==
    IF ans.ret = 0 THEN
        [ queried |-> TRUE, read |-> FALSE, result |-> Err("VerQueryValueW failed") ]
    ELSE IF ans.pinfo = "null" THEN
        [ queried |-> TRUE, read |-> FALSE,
          result |-> Err("Got null result from VerQueryValueA") ]
    ELSE IF ans.mem.dwSignature # Magic THEN
        [ queried |-> TRUE, read |-> TRUE,
          result |-> Err("Unexpected VS_FILEINFO signature "
                         \o fmt_hex(ans.mem.dwSignature)) ]
    ELSE IF ans.pinfo_size < Cardinality(RawFields) * 4 THEN
        [ queried |-> TRUE, read |-> TRUE,
          result |-> Err("Not enough RawFixedFileInfo data. Expected "
                         \o fmt_dec(Cardinality(RawFields) * 4) \o " got "
                         \o fmt_dec(ans.pinfo_size)) ]
    ELSE
        [ queried |-> TRUE, read |-> TRUE, result |-> Ok(FixedFileInfo_from(ans.mem)) ]

(***************************************************************************)
(* lib.rs: get_fixed_info, given what VerQueryValueW answers.  The result  *)
(* is the Result returned and whether ptr::read_unaligned was executed.    *)
(***************************************************************************)
get_fixed_info(ans) ==
    IF to_wide_string(RootBlock).tag = "Err" THEN
        [ queried |-> FALSE, read |-> FALSE, result |-> to_wide_string(RootBlock) ]
    ELSE IF ans.ret = 0 THEN
        [ queried |-> TRUE, read |-> FALSE, result |-> Err("VerQueryValueW failed") ]
    ELSE IF ans.pinfo = "null" THEN
        [ queried |-> TRUE, read |-> FALSE,
          result |-> Err("Got null result from VerQueryValueA") ]
    ELSE IF ans.pinfo_size < size_of_RawFixedFileInfo THEN
        [ queried |-> TRUE, read |-> FALSE,
          result |-> Err("Not enough RawFixedFileInfo data. Expected "
                         \o fmt_dec(size_of_RawFixedFileInfo) \o " got "
                         \o fmt_dec(ans.pinfo_size)) ]
    ELSE IF ans.mem.dwSignature # Magic THEN
        [ queried |-> TRUE, read |-> TRUE,
          result |-> Err("Unexpected VS_FILEINFO signature "
                         \o fmt_hex(ans.mem.dwSignature)) ]
    ELSE
        [ queried |-> TRUE, read |-> TRUE, result |-> Ok(FixedFileInfo_from(ans.mem)) ]

(***************************************************************************)
(* The state of a run of the command-line program.                         *)
(***************************************************************************)
VARIABLES
    args,       \* std::env::args().skip(1): the path arguments
    idx,        \* how many arguments the for loop of main has taken
    any,        \* main's `any`
    err,        \* main's `err`
    pc,         \* where the program is
    after,      \* where print_one returns to: the loop, or the end of main
    path,       \* print_one's `path`
    path_w,     \* get_version_data's `path_w`
    size,       \* get_version_data's `size`
    buf,        \* get_version_data's `buf`, later get_fixed_info's `vdata`
    query,      \* what VerQueryValueW answered for the current path
    result,     \* the Result of get_file_fixed_info for the current path
    trace,      \* the operating-system calls, allocations and raw reads made for the current path
    output,     \* the lines written so far, each with its stream
    exit_code,  \* the process's exit status; -1 while it runs
    vn,         \* a u64 handed to, or obtained from, Version's conversions
    vv,         \* a Version handed to, or obtained from, Version's conversions
    vstage,     \* which conversions have been applied
    vin         \* the four 16-bit quarters the conversions started from

vars == << args, idx, any, err, pc, after, path, path_w, size, buf, query, result,
           trace, output, exit_code, vn, vv, vstage, vin >>

cli_vars == << args, idx, any, err, pc, after, path, path_w, size, buf, query, result,
               trace, output, exit_code >>

ver_vars == << vn, vv, vstage, vin >>

RECURSIVE SeqsUpTo(_, _)
SeqsUpTo(S, n) == IF n = 0 THEN { << >> }
                  ELSE SeqsUpTo(S, n - 1) \cup
                       { Append(q, x) : q \in SeqsUpTo(S, n - 1), x \in S }

NoQuery == [ ret |-> 0, pinfo |-> "null", pinfo_size |-> 0, mem |-> NoMem ]

Event(op, str, dwLen, buflen) == [ op |-> op, str |-> str, dwLen |-> dwLen, buflen |-> buflen ]

ZeroQword == << 0, 0, 0, 0 >>

VerIdle == /\ vn = ZeroQword
           /\ vv = Version_from(ZeroQword)
           /\ vstage = "idle"
           /\ vin = << 0, 0, 0, 0 >>

CliIdle == /\ args = << >>
           /\ idx = 0
           /\ any = FALSE
           /\ err = 0
           /\ pc = "idle"
           /\ after = "loop"
           /\ path = << >>
           /\ path_w = << >>
           /\ size = 0
           /\ buf = << >>
           /\ query = NoQuery
           /\ result = NoResult
           /\ trace = << >>
           /\ output = << >>
           /\ exit_code = -1

\* The program starts in main with some argument list.
Init == /\ args \in SeqsUpTo(Paths, MaxArgs)
        /\ idx = 0
        /\ any = FALSE
        /\ err = 0
        /\ pc = "loop"
        /\ after = "loop"
        /\ path = << >>
        /\ path_w = << >>
        /\ size = 0
        /\ buf = << >>
        /\ query = NoQuery
        /\ result = NoResult
        /\ trace = << >>
        /\ output = << >>
        /\ exit_code = -1
        /\ VerIdle

\* print_one is entered with path p: get_file_fixed_info(p) begins.
Enter(p, back) ==
    /\ path' = p
    /\ after' = back
    /\ pc' = "to_wide"
    /\ path_w' = << >>
    /\ size' = 0
    /\ buf' = << >>
    /\ query' = NoQuery
    /\ result' = NoResult
    /\ trace' = << >>

\* main: `for path in std::env::args().skip(1)` takes the next argument.
NextArg ==
    /\ pc = "loop"
    /\ idx < Len(args)
    /\ any' = TRUE
    /\ idx' = idx + 1
    /\ Enter(args[idx + 1], "loop")
    /\ UNCHANGED << args, err, output, exit_code, ver_vars >>

\* main: the loop is over; `if !any` the default path is printed.
LoopDone ==
    /\ pc = "loop"
    /\ idx = Len(args)
    /\ IF ~any
         THEN Enter(DEFAULT_PATH, "end")
         ELSE /\ pc' = "end"
              /\ UNCHANGED << path, after, path_w, size, buf, query, result, trace >>
    /\ UNCHANGED << args, idx, any, err, output, exit_code, ver_vars >>

\* get_version_data: `let path_w = to_wide_string(path.as_ref())?`
ToWide ==
    /\ pc = "to_wide"
    /\ LET r == to_wide_string(path)
       IN  IF r.tag = "Err"
             THEN /\ result' = r
                  /\ pc' = "report"
                  /\ UNCHANGED path_w
             ELSE /\ path_w' = r.val
                  /\ pc' = "size"
                  /\ UNCHANGED result
    /\ UNCHANGED << args, idx, any, err, after, path, size, buf, query, trace, output,
                    exit_code, ver_vars >>

\* SizeQuery without the test `size == 0`.
SizeQuery_nocheck ==
    /\ pc = "size"
    /\ \E sz \in 0 .. MaxSize :
         /\ size' = sz
         /\ buf' = [ i \in 1 .. sz |-> 0 ]
         /\ trace' = << Event("GetFileVersionInfoSizeW", path_w, 0, 0),
                        Event("alloc", << >>, 0, sz) >>
         /\ pc' = "fill"
    /\ UNCHANGED << args, idx, any, err, after, path, path_w, query, output, exit_code,
                    result, vn, vv, vstage, vin >>

\* get_version_data: GetFileVersionInfoSizeW, the test of its result, and the
\* allocation `vec![0u8; size as usize]`.
SizeQuery ==
    /\ pc = "size"
    /\ \E sz \in 0 .. MaxSize :
         LET called == Append(trace, Event("GetFileVersionInfoSizeW", path_w, 0, 0))
         IN  IF sz = 0
               THEN /\ result' = Err("GetFileVersionInfoSizeW failed")
                    /\ pc' = "report"
                    /\ trace' = called
                    /\ UNCHANGED << size, buf >>
               ELSE /\ size' = sz
                    /\ buf' = [ i \in 1 .. sz |-> 0 ]
                    /\ trace' = Append(called, Event("alloc", << >>, 0, sz))
                    /\ pc' = "fill"
                    /\ UNCHANGED result
    /\ UNCHANGED << args, idx, any, err, after, path, path_w, query, output, exit_code,
                    ver_vars >>

\* get_version_data: GetFileVersionInfoW and the match on its result.
Fill ==
    /\ pc = "fill"
    /\ \E ret \in {0, 1} :
         /\ trace' = Append(trace, Event("GetFileVersionInfoW", path_w, size, Len(buf)))
         /\ IF ret = 0
              THEN /\ result' = Err("GetFileVersionInfoW failed")
                   /\ pc' = "report"
              ELSE /\ pc' = "query"
                   /\ UNCHANGED result
    /\ UNCHANGED << args, idx, any, err, after, path, path_w, size, buf, query, output,
                    exit_code, ver_vars >>

\* get_file_fixed_info: `unsafe { get_fixed_info(&data) }`.
GetFixedInfo ==
    /\ pc = "query"
    /\ \E ans \in QueryAnswers :
         LET g == get_fixed_info(ans)
             t1 == IF g.queried
                     THEN Append(trace, Event("VerQueryValueW", to_wide_string(RootBlock).val,
                                              0, Len(buf)))
                     ELSE trace
             t2 == IF g.read
                     THEN Append(t1, Event("read_unaligned", << >>,
                                           size_of_RawFixedFileInfo, ans.pinfo_size))
                     ELSE t1
         IN  /\ query' = ans
             /\ result' = g.result
             /\ trace' = t2
             /\ pc' = "report"
    /\ UNCHANGED << args, idx, any, err, after, path, path_w, size, buf, output,
                    exit_code, ver_vars >>

\* print_one: the match on get_file_fixed_info's result; main: `err += print_one(..)`.
print_one_line(p, r) ==
    IF r.tag = "Ok"
      THEN [ stream |-> "stdout",
             line |-> << p, ": ", Version_fmt(Version_from(r.val.product_version)) >>,
             ret |-> 0 ]
      ELSE [ stream |-> "stderr", line |-> << "ERROR: ", p, ": ", r.val >>, ret |-> 1 ]

\* PrintOne with a failure ending the loop of main.
PrintOne_stop ==
    /\ pc = "report"
    /\ LET w == print_one_line(path, result)
       IN  /\ output' = Append(output, [ stream |-> w.stream, line |-> w.line ])
           /\ err' = err + w.ret
           /\ pc' = IF w.ret = 0 THEN after ELSE "end"
    /\ UNCHANGED << args, idx, any, after, path, path_w, size, buf, query, result, trace,
                    exit_code, vn, vv, vstage, vin >>

PrintOne ==
    /\ pc = "report"
    /\ LET w == print_one_line(path, result)
       IN  /\ output' = Append(output, [ stream |-> w.stream, line |-> w.line ])
           /\ err' = err + w.ret
    /\ pc' = after
    /\ UNCHANGED << args, idx, any, after, path, path_w, size, buf, query, result, trace,
                    exit_code, ver_vars >>

\* Exit with the number of failures as the status.
Exit_count ==
    /\ pc = "end"
    /\ exit_code' = err
    /\ pc' = "done"
    /\ UNCHANGED << args, idx, any, err, after, path, path_w, size, buf, query, result,
                    trace, output, vn, vv, vstage, vin >>

\* main: `if err != 0 { exit(1) }`, else main returns and the status is 0.
Exit ==
    /\ pc = "end"
    /\ exit_code' = IF err # 0 THEN 1 ELSE 0
    /\ pc' = "done"
    /\ UNCHANGED << args, idx, any, err, after, path, path_w, size, buf, query, result,
                    trace, output, ver_vars >>

Next == \/ NextArg
        \/ LoopDone
        \/ ToWide
        \/ SizeQuery
        \/ Fill
        \/ GetFixedInfo
        \/ PrintOne
        \/ Exit

Spec == Init /\ [][Next]_vars

(***************************************************************************)
(* Version's conversions applied to bounded inputs.                        *)
(***************************************************************************)
LimbTable == << 0, 1, 2, 3, 4, 65535, 32768, 82, 1410 >>

Limbs == { LimbTable[k] : k \in 1 .. NumLimbs }

\* Either a u64 or a Version is given, built from four 16-bit quarters.
VerInit ==
    /\ CliIdle
    /\ vin \in Limbs \X Limbs \X Limbs \X Limbs
    /\ \/ /\ vstage = "u64"
          /\ vn = vin
          /\ vv = Version_from(ZeroQword)
       \/ /\ vstage = "version"
          /\ vv = vin
          /\ vn = ZeroQword

\* Version::from(vn)
Decompose ==
    /\ vstage \in {"u64", "version-u64"}
    /\ vv' = Version_from(vn)
    /\ vstage' = IF vstage = "u64" THEN "u64-version" ELSE "version-u64-version"
    /\ UNCHANGED << vn, vin, cli_vars >>

\* u64::from(vv)
Compose ==
    /\ vstage \in {"version", "u64-version"}
    /\ vn' = u64_from(vv)
    /\ vstage' = IF vstage = "version" THEN "version-u64" ELSE "u64-version-u64"
    /\ UNCHANGED << vv, vin, cli_vars >>

VerNext == Decompose \/ Compose

VerSpec == VerInit /\ [][VerNext]_vars

(***************************************************************************)
(* Properties.                                                             *)
(***************************************************************************)
\* C1: Round-trip law of Version.  A u64 decomposed by Version::from and recomposed
\* by u64::from is the u64 that was given; four 16-bit components composed by
\* u64::from and decomposed by Version::from are the components that were given.
C1_RoundTrip ==
    /\ vstage = "u64-version-u64" => vn = vin
    /\ vstage = "version-u64-version" => vv = vin

C1_Witness ==
    /\ vstage = "u64-version-u64"
    /\ vin = << 65535, 1, 0, 4 >>
    /\ vv = << 65535, 1, 0, 4 >>
    /\ vn = << 65535, 1, 0, 4 >>

\* C2: Version::from decomposes most-significant quarter first.  For the u64 n whose
\* quarters are vin (n = vin[1]*2^48 + vin[2]*2^32 + vin[3]*2^16 + vin[4]), component
\* k of Version::from(n) is the number vin[k], that is (n div 2^(16*(4-k))) mod 2^16,
\* and lies in 0..65535.
C2_Decompose ==
    vstage = "u64-version" =>
        /\ Len(vv) = 4
        /\ \A k \in 1 .. 4 : vv[k] = vin[k] /\ vv[k] \in 0 .. 65535

C2_Witness ==
    /\ vstage = "u64-version"
    /\ vn = << 1, 2, 3, 4 >>
    /\ vv = << 1, 2, 3, 4 >>

\* VerQueryValueW has been called for the current path.
Queried == \E i \in 1 .. Len(trace) : trace[i].op = "VerQueryValueW"

\* ptr::read_unaligned has been executed for the current path.
WasRead == \E i \in 1 .. Len(trace) : trace[i].op = "read_unaligned"

\* The signatures of SigTable as `{:x}` prints them.
SigHex == << "feef04bd", "feef04bc", "0", "4bdfeef" >>

\* The lengths of LenTable as `{}` prints them.
LenDec == << "52", "51", "53", "0", "4" >>

\* The product versions of VerTable as Version's Display prints them.
VerDec == << "8.82.0.1410", "65535.65535.65535.65535", "1.2.3.4", "0.0.0.0" >>

\* C3: Signature validation.  When the sub-block query succeeds with a non-null
\* location and a length of at least 52, and the signature read differs from
\* 0xFEEF04BD, the result is the bad-signature error carrying the observed value in
\* hexadecimal; and a FixedFileInfo is returned only for a signature of 0xFEEF04BD.
C3_BadSignature ==
    /\ ( /\ Queried
         /\ query.ret # 0
         /\ query.pinfo = "ptr"
         /\ query.pinfo_size >= 52
         /\ query.mem.dwSignature # SigTable[1] )
       => \E g \in 2 .. Len(SigTable) :
             /\ query.mem.dwSignature = SigTable[g]
             /\ result = Err("Unexpected VS_FILEINFO signature " \o SigHex[g])
    /\ result.tag = "Ok" => query.mem.dwSignature = Dword(65263, 1213)

C3_Witness ==
    /\ Queried
    /\ query.ret # 0
    /\ query.pinfo = "ptr"
    /\ query.pinfo_size >= 52
    /\ query.mem.dwSignature = Dword(65263, 1212)
    /\ result = Err("Unexpected VS_FILEINFO signature feef04bc")

\* C4: Undersized sub-block.  When the sub-block query succeeds with a non-null
\* location and a length below 52, the result is the too-small error whatever the
\* memory holds, and the structure is not read; the structure is only ever read from
\* a region of at least 52 bytes; and the checks are made in the order query failed,
\* null location, too small, bad signature.
C4_TooSmall ==
    Queried =>
        /\ query.ret = 0 => result = Err("VerQueryValueW failed") /\ ~WasRead
        /\ (query.ret # 0 /\ query.pinfo = "null")
             => result = Err("Got null result from VerQueryValueA") /\ ~WasRead
        /\ (query.ret # 0 /\ query.pinfo = "ptr" /\ query.pinfo_size < 52)
             => /\ ~WasRead
                /\ \E k \in 1 .. Len(LenTable) :
                      /\ query.pinfo_size = LenTable[k]
                      /\ result = Err("Not enough RawFixedFileInfo data. Expected 52 got "
                                      \o LenDec[k])
        /\ \A i \in 1 .. Len(trace) :
              trace[i].op = "read_unaligned" => trace[i].dwLen = 52 /\ trace[i].buflen >= 52
        /\ result.tag = "Err" /\ result.val \in { "Unexpected VS_FILEINFO signature " \o SigHex[g] :
                                                    g \in 1 .. Len(SigTable) }
             => query.ret # 0 /\ query.pinfo = "ptr" /\ query.pinfo_size >= 52

C4_Witness ==
    /\ Queried
    /\ query.ret # 0
    /\ query.pinfo = "ptr"
    /\ query.pinfo_size = 51
    /\ query.mem.dwSignature = Magic
    /\ result = Err("Not enough RawFixedFileInfo data. Expected 52 got 51")
    /\ ~WasRead

\* The 0-based index of the first null character of path p; Len(p) if it has none.
RECURSIVE FirstNull(_, _)
FirstNull(p, i) == IF i >= Len(p) \/ p[i + 1] = 0 THEN i ELSE FirstNull(p, i + 1)

HasNull(p) == \E i \in 1 .. Len(p) : p[i] = 0

\* How many of the first n characters of p lie outside the Basic Multilingual Plane.
Astral(p, n) == Cardinality({ i \in 1 .. n : p[i] >= 65536 })

\* Small positions as `{}` prints them.
PosDec == << "0", "1", "2", "3", "4", "5", "6", "7" >>

\* The characters that a sequence of UTF-16 code units stands for.
RECURSIVE DecodeWide(_)
DecodeWide(w) ==
    IF w = << >> THEN << >>
    ELSE IF /\ Len(w) >= 2
            /\ w[1] \in 55296 .. 56319
            /\ w[2] \in 56320 .. 57343
         THEN << 65536 + (w[1] - 55296) * 1024 + (w[2] - 56320) >> \o DecodeWide(Tail(Tail(w)))
         ELSE << w[1] >> \o DecodeWide(Tail(w))

\* get_version_data has got past the conversion of the current path.
Converted == pc \in {"size", "fill", "query"} \/ trace # << >>

\* The conversion of the current path is over.
PastToWide == pc # "to_wide" /\ path # << >>

Failures == { i \in 1 .. Len(output) : output[i].stream = "stderr" }

IsReportOf(o, p, r) ==
    IF r.tag = "Ok"
      THEN /\ o.stream = "stdout"
           /\ Len(o.line) = 3
           /\ o.line[1] = p
           /\ o.line[2] = ": "
      ELSE /\ r.tag = "Err"
           /\ o.stream = "stderr"
           /\ o.line = << "ERROR: ", p, ": ", r.val >>

\* The paths main is to process, in order.
ToProcess == IF args = << >> THEN << DEFAULT_PATH >> ELSE args

\* print_one is running for the current path.
InPrintOne == pc \in {"to_wide", "size", "fill", "query", "report"}

\* How many paths have been taken up so far.
Taken == IF args = << >> THEN (IF path = << >> THEN 0 ELSE 1) ELSE idx

C8_ScalarsCopied ==
    result.tag = "Ok" =>
        /\ result.val.struc_version = query.mem.dwStrucVersion
        /\ result.val.file_flags_mask = query.mem.dwFileFlagsMask
        /\ result.val.file_flags = query.mem.dwFileFlags
        /\ result.val.file_os = query.mem.dwFileOS
        /\ result.val.file_type = query.mem.dwFileType
        /\ result.val.file_subtype = query.mem.dwFileSubtype

\* The u64 x is high * 2^32 + low: its upper 32 bits are the u32 high, its lower
\* 32 bits the u32 low, and no bit of either is lost.
IsPacked(x, high, low) == x = << high[1], high[2], low[1], low[2] >>

\* C9: 64-bit field packing.  For a validated raw structure, file_version,
\* product_version and file_date are MS * 2^32 + LS of their halves; and the version
\* printed for the file is (MS div 2^16).(MS mod 2^16).(LS div 2^16).(LS mod 2^16) of
\* the product-version halves, in decimal.
C9_Packing ==
    result.tag = "Ok" =>
        /\ IsPacked(result.val.file_version, query.mem.dwFileVersionMS,
                    query.mem.dwFileVersionLS)
        /\ IsPacked(result.val.product_version, query.mem.dwProductVersionMS,
                    query.mem.dwProductVersionLS)
        /\ IsPacked(result.val.file_date, query.mem.dwFileDateMS, query.mem.dwFileDateLS)
        /\ ~InPrintOne =>
              /\ output[Len(output)].stream = "stdout"
              /\ output[Len(output)].line[3] =
                    fmt_dec(query.mem.dwProductVersionMS[1]) \o "." \o
                    fmt_dec(query.mem.dwProductVersionMS[2]) \o "." \o
                    fmt_dec(query.mem.dwProductVersionLS[1]) \o "." \o
                    fmt_dec(query.mem.dwProductVersionLS[2])
              /\ \E s \in 1 .. Len(VerTable) :
                    /\ query.mem.dwProductVersionMS = Dword(VerTable[s][1], VerTable[s][2])
                    /\ query.mem.dwProductVersionLS = Dword(VerTable[s][3], VerTable[s][4])
                    /\ output[Len(output)].line[3] = VerDec[s]

C9_Witness ==
    /\ pc = "loop"
    /\ result.tag = "Ok"
    /\ result.val.product_version = << 8, 82, 0, 1410 >>
    /\ output[Len(output)].line = << path, ": ", "8.82.0.1410" >>
    /\ result.val.file_version[1] >= 32768

\* The operations of the current path, in the order they were made.
Ops == [ i \in 1 .. Len(trace) |-> trace[i].op ]

IsPrefix(a, b) == Len(a) <= Len(b) /\ a = SubSeq(b, 1, Len(a))

\* C10: OS call sequence of get_file_fixed_info.  The operations are the size query,
\* the buffer fill and the sub-block query, in this order, each at most once; a size
\* query returning 0 gives an error with no allocation and no fill; the fill is
\* requested with a buffer of exactly the reported size; a failed fill gives an error
\* with no sub-block query; and a FixedFileInfo is returned only when all three
\* succeeded and the null, length and signature checks passed; every other run ends
\* in an error.
C10_CallSequence ==
    /\ IsPrefix(Ops, << "GetFileVersionInfoSizeW", "alloc", "GetFileVersionInfoW",
                        "VerQueryValueW", "read_unaligned" >>)
    /\ (Len(trace) >= 1 /\ pc # "size" /\ size = 0) =>
          /\ Len(trace) = 1
          /\ result = Err("GetFileVersionInfoSizeW failed")
    /\ Len(trace) >= 2 => size > 0 /\ trace[2].buflen = size /\ Len(buf) = size
    /\ Len(trace) >= 3 =>
          /\ trace[3].dwLen = size
          /\ trace[3].buflen = size
          /\ trace[3].str = trace[1].str
    /\ result = Err("GetFileVersionInfoW failed") => Len(trace) = 3
    /\ (Len(trace) = 3 /\ pc \notin {"fill", "query"}) => result = Err("GetFileVersionInfoW failed")
    /\ result.tag = "Ok" =>
          /\ Len(trace) = 5
          /\ query.ret # 0
          /\ query.pinfo = "ptr"
          /\ query.pinfo_size >= 52
          /\ query.mem.dwSignature = Dword(65263, 1213)
    /\ (pc \in {"report", "loop", "end", "done"} /\ path # << >>) => result.tag \in {"Ok", "Err"}
    /\ pc \in {"to_wide", "size", "fill", "query"} => result.tag = "none"

C10_Witness ==
    /\ pc = "report"
    /\ result.tag = "Ok"
    /\ Ops = << "GetFileVersionInfoSizeW", "alloc", "GetFileVersionInfoW",
                "VerQueryValueW", "read_unaligned" >>
    /\ trace[3].dwLen = 1

=============================================================================
